---- MODULE Spec2Model ----
(***************************************************************************)
(* The per-table event sink of tiflow (cdc/sink/tablesink): EventTableSink *)
(* with its progress tracker, one producer, one backend sink and one       *)
(* scheduler.  Every handler of EventTableSink is one action; Close, which *)
(* blocks in waitClosed, is split at the point where it blocks.            *)
(***************************************************************************)
EXTENDS Integers, Sequences, FiniteSets, TLC

\* ------------------------------------------------------------------ bounds
\* largest commitTs / resolvedTs.Ts the producer uses
MaxTs == 2
\* number of events the producer appends in a run
MaxEvents == 2

\* ------------------------------------------------------- model.ResolvedTs
NormalResolvedMode == "Normal"
BatchResolvedMode == "BatchResolved"

ModeRank(m) == IF m = NormalResolvedMode THEN 0 ELSE 1

NewResolvedTs(t) == [Ts |-> t, Mode |-> NormalResolvedMode, BatchID |-> 0]

\* a is strictly before b in the order (ts, mode-rank, batchId)
Less(a, b) ==
    \/ a.Ts < b.Ts
    \/ a.Ts = b.Ts /\ ModeRank(a.Mode) < ModeRank(b.Mode)
    \/ a.Ts = b.Ts /\ ModeRank(a.Mode) = ModeRank(b.Mode) /\ a.BatchID < b.BatchID

EqualOrGreater(a, b) == ~Less(a, b)

\* the watermarks the producer may pass to UpdateResolvedTs
ResolvedTsInputs == {NewResolvedTs(t) : t \in 1..MaxTs}

\* --------------------------------------------------------- state.TableSinkState
TableSinkSinking == "Sinking"
TableSinkStopping == "Stopping"
TableSinkStopped == "Stopped"

StateRank(s) ==
    IF s = TableSinkSinking THEN 0 ELSE IF s = TableSinkStopping THEN 1 ELSE 2

\* ------------------------------------------------------- progress tracker
\* A pending item of the tracker's queue Q.
EventPending(id) ==
    [kind |-> "EventPending", ackId |-> id, resolvedTs |-> NewResolvedTs(0)]
ResolvedMarker(r) ==
    [kind |-> "ResolvedMarker", ackId |-> 0, resolvedTs |-> r]

newProgressTracker ==
    [Q |-> <<>>, acked |-> {}, frontier |-> NewResolvedTs(0),
     lastResolved |-> NewResolvedTs(0), nextAckId |-> 1, frozen |-> FALSE]

\* addEvent: a fresh ackId is queued; the handle returned is that ackId.
addEvent(tr) ==
    [tr EXCEPT !.Q = Append(@, EventPending(tr.nextAckId)),
               !.nextAckId = @ + 1]

\* invoking the handle of ackId id
ackMut(tr, id) ==
    IF id \in tr.acked /\ id + 1 < tr.nextAckId
    THEN [tr EXCEPT !.acked = (@ \ {id}) \cup {id + 1}]
    ELSE [tr EXCEPT !.acked = @ \cup {id}]

ack(tr, id) == [tr EXCEPT !.acked = @ \cup {id}]

addResolvedTs(tr, r) ==
    IF ~tr.frozen /\ Less(tr.lastResolved, r)
    THEN [tr EXCEPT !.Q = Append(@, ResolvedMarker(r)), !.lastResolved = r]
    ELSE tr

RECURSIVE advance(_)
advance(tr) ==
    IF tr.Q = <<>> THEN tr
    ELSE LET h == Head(tr.Q) IN
         IF h.kind = "EventPending"
         THEN IF h.ackId \in tr.acked
              THEN advance([tr EXCEPT !.Q = Tail(@), !.acked = @ \ {h.ackId}])
              ELSE tr
         ELSE advance([tr EXCEPT !.Q = Tail(@), !.frontier = h.resolvedTs])

freezeProcess(tr) == [tr EXCEPT !.frozen = TRUE]

\* checkClosed(backendDead): the tracker after the probe and its answer
checkClosed(tr, dead) ==
    IF dead
    THEN [pt |-> [tr EXCEPT !.frontier = tr.lastResolved], closed |-> TRUE]
    ELSE [pt |-> tr, closed |-> tr.Q = <<>>]

\* ---------------------------------------------------------- event buffer
\* dmlsink.Appender.Append: the rows go behind the buffered events
AppenderAppend(buffer, rows) == buffer \o rows

SearchMut(lo, hi, buffer, ts) ==
    Cardinality({k \in (lo + 1)..hi : buffer[k].commitTs < ts})

\* sort.Search(len(buffer), buffer[i].GetCommitTs() > ts) on [lo, hi)
RECURSIVE Search(_, _, _, _)
Search(lo, hi, buffer, ts) ==
    IF lo < hi
    THEN LET h == (lo + hi) \div 2 IN
         IF ~(buffer[h + 1].commitTs > ts)
         THEN Search(h + 1, hi, buffer, ts)
         ELSE Search(lo, h, buffer, ts)
    ELSE lo

ResolvedEventsMut(buffer, i) == SubSeq(buffer, i + 1, Len(buffer))

\* resolvedEvents := e.eventBuffer[:i]
ResolvedEvents(buffer, i) == SubSeq(buffer, 1, i)

RestEventsMut(buffer, i) == buffer

\* e.eventBuffer = append(make(...), e.eventBuffer[i:]...)
RestEvents(buffer, i) == SubSeq(buffer, i + 1, Len(buffer))

\* ------------------------------------------------- EventTableSink handlers
SkipFlushMut(max, r) == Less(r, max)

\* the early return of UpdateResolvedTs
SkipFlush(max, r) == EqualOrGreater(max, r)

MaxResolvedAfterMut(max, r) == max

\* e.maxResolvedTs = resolvedTs
MaxResolvedAfter(max, r) == r

RECURSIVE AddEvents(_, _)
\* the loop of UpdateResolvedTs that wraps n events: one addEvent each
AddEvents(tr, n) == IF n = 0 THEN tr ELSE AddEvents(addEvent(tr), n - 1)

FlushTrackerMut(tr, n, r) == AddEvents(addResolvedTs(tr, r), n)

\* the tracker calls of an advancing UpdateResolvedTs, in the code's order
FlushTracker(tr, n, r) == addResolvedTs(AddEvents(tr, n), r)

EmptyFlushMut(tr, r) == tr

\* the tracker call of an advancing UpdateResolvedTs that drains nothing
EmptyFlush(tr, r) == addResolvedTs(tr, r)

FreezeBreaksMut(currentState) == currentState = TableSinkStopping

\* freeze leaves the state alone when it is already Stopping or Stopped
FreezeBreaks(currentState) ==
    currentState = TableSinkStopping \/ currentState = TableSinkStopped

ProbesCloseMut(currentState) == TRUE

\* GetCheckpointTs probes the close only in Stopping
ProbesClose(currentState) == currentState = TableSinkStopping

CheckpointAdvanceMut(tr) == tr

\* return e.progressTracker.advance()
CheckpointAdvance(tr) == advance(tr)

\* A handler runs on c = [state, pt, rets, cas]: the state cell, the tracker,
\* the values GetCheckpointTs has returned so far inside the handler and the
\* successful CompareAndSwaps on the state cell, as <<old, new>>.
RECURSIVE GetCheckpointTsOp(_, _), markAsClosedOp(_, _)
GetCheckpointTsOp(c, dead) ==
    LET c1 == IF ProbesClose(c.state)
              THEN LET cc == checkClosed(c.pt, dead)
                       c0 == [c EXCEPT !.pt = cc.pt]
                   IN  IF cc.closed THEN markAsClosedOp(c0, dead) ELSE c0
              ELSE c
        a == CheckpointAdvance(c1.pt)
    IN  [c1 EXCEPT !.pt = a, !.rets = Append(@, a.frontier)]

markAsClosedOp(c, dead) ==
    IF c.state = TableSinkStopped
    THEN c
    ELSE GetCheckpointTsOp(
             [c EXCEPT !.state = TableSinkStopped,
                       !.cas = Append(@, <<c.state, TableSinkStopped>>)], dead)

freezeOpMut(c, dead) ==
    LET c0 == [c EXCEPT !.pt = freezeProcess(@)] IN
    IF FreezeBreaks(c0.state)
    THEN c0
    ELSE [c0 EXCEPT !.state = TableSinkStopping,
                    !.cas = Append(@, <<c0.state, TableSinkStopping>>)]

\* freeze: the tracker is frozen, then one CompareAndSwap to Stopping and
\* the GetCheckpointTs call that follows it
freezeOp(c, dead) ==
    LET c0 == [c EXCEPT !.pt = freezeProcess(@)] IN
    IF FreezeBreaks(c0.state)
    THEN c0
    ELSE GetCheckpointTsOp(
             [c0 EXCEPT !.state = TableSinkStopping,
                        !.cas = Append(@, <<c0.state, TableSinkStopping>>)], dead)

AsyncCloseOpMut(c, dead) ==
    LET cc == checkClosed(c.pt, dead)
        c0 == [c EXCEPT !.pt = cc.pt]
    IN  IF cc.closed
        THEN [c |-> markAsClosedOp(c0, dead), ret |-> "true"]
        ELSE [c |-> c0, ret |-> "false"]

\* AsyncClose: the handler's result and its return value
AsyncCloseOp(c, dead) ==
    LET f == freezeOp(c, dead)
        cc == checkClosed(f.pt, dead)
        c0 == [f EXCEPT !.pt = cc.pt]
    IN  IF cc.closed
        THEN [c |-> markAsClosedOp(c0, dead), ret |-> "true"]
        ELSE [c |-> c0, ret |-> "false"]

\* Close, when waitClosed does not have to wait: the handler's result, and
\* whether waitClosed returned at once
CloseOp(c, dead) ==
    LET f == freezeOp(c, dead)
        cc == checkClosed(f.pt, dead)
    IN  IF cc.closed
        THEN [c |-> markAsClosedOp([f EXCEPT !.pt = cc.pt], dead), blocks |-> FALSE]
        ELSE [c |-> f, blocks |-> TRUE]

\* ------------------------------------------------ pkg/config/sink.go
\* A Go pointer is the address it holds and the value stored there; the nil
\* pointer holds no value.  Two pointers are equal when their addresses are.
NilPtr == [addr |-> "nil", val |-> "nil"]

IsNil(p) == p.addr = "nil"

\* p == q on two pointers
SamePtr(p, q) == p.addr = q.addr

\* util.AddressOf: a pointer to a newly allocated copy of v
AddressOf(v) == [addr |-> "new", val |-> v]

\* util.GetOrZero: the value behind p, the type's zero value for nil
GetOrZero(p, zero) == IF IsNil(p) THEN zero ELSE p.val

TxnAtomicityKey == "transaction-atomicity"
ProtocolKey == "protocol"
unknownTxnAtomicity == ""
noneTxnAtomicity == "none"
tableTxnAtomicity == "table"
CRLF == "\r\n"
CR == "\r"
LF == "\n"
MinFileIndexWidth == 6
MaxFileIndexWidth == 20
DefaultFileIndexWidth == MaxFileIndexWidth
BinaryEncodingHex == "hex"
BinaryEncodingBase64 == "base64"
ProtocolCsv == "csv"
KnownProtocols == {"open", "canal", "canal-json", "avro", "maxwell", "csv"}

\* an error value: its code and, for ErrIncompatibleSinkConfig, the two
\* lists its message prints
Err(code) == [code |-> code, inURI |-> <<>>, inFile |-> <<>>]
ErrNil == Err("nil")

\* the scheme families
IsMQScheme(scheme) == scheme \in {"kafka", "kafka+ssl", "pulsar"}
IsStorageScheme(scheme) == scheme \in {"file", "s3", "gcs", "azblob"}
IsMySQLCompatibleScheme(scheme) == scheme \in {"mysql", "tidb"}

\* ParseSinkProtocolFromString: the protocol a name stands for
ParseSinkProtocolFromString(protocol) ==
    IF protocol \in KnownProtocols
    THEN [protocol |-> protocol, err |-> ErrNil]
    ELSE [protocol |-> "unknown", err |-> Err("ErrSinkUnknownProtocol")]

\* a parsed *url.URL: its scheme and what Query().Get answers for the two keys
URL(scheme, txnAtomicity, protocol) ==
    [isNil |-> FALSE, Scheme |-> scheme,
     Query |-> [k \in {TxnAtomicityKey, ProtocolKey} |->
                   IF k = TxnAtomicityKey THEN txnAtomicity ELSE protocol]]

NilURL == [isNil |-> TRUE, Scheme |-> "",
           Query |-> [k \in {TxnAtomicityKey, ProtocolKey} |-> ""]]

\* a Go map[string]string and an assignment m[k] = v
EmptyMap == [k \in {} |-> ""]

MapPut(m, k, v) == [x \in DOMAIN m \cup {k} |-> IF x = k THEN v ELSE m[x]]

\* the orders in which a range loop may visit the keys K
RECURSIVE RangeOrders(_)
RangeOrders(K) ==
    IF K = {} THEN {<<>>}
    ELSE UNION {{<<k>> \o o : o \in RangeOrders(K \ {k})} : k \in K}

\* getErrMsg: the entries of the map, "key=value", in the order of the range
getErrMsg(m) ==
    {[i \in 1..Len(o) |-> <<o[i], m[o[i]]>>] : o \in RangeOrders(DOMAIN m)}

\* AtomicityLevel.validate
validate(l, scheme) ==
    CASE l \in {unknownTxnAtomicity, noneTxnAtomicity} -> ErrNil
      [] l = tableTxnAtomicity ->
            IF IsMQScheme(scheme) THEN Err("ErrSinkURIInvalid") ELSE ErrNil
      [] OTHER -> Err("ErrSinkURIInvalid")

\* applyParameterBySinkURI: is the config file's atomicity overwritten
\* by a different one
TxnAtomicityConflict(s, txnAtomicityFromURI) ==
    /\ GetOrZero(s.TxnAtomicity, unknownTxnAtomicity) # unknownTxnAtomicity
    /\ GetOrZero(s.TxnAtomicity, unknownTxnAtomicity) # txnAtomicityFromURI

\* applyParameterBySinkURI: is the config file's protocol overwritten by a
\* different one
ProtocolConflict(s, protocolFromURI) ==
    /\ ~IsNil(s.Protocol)
    /\ GetOrZero(s.Protocol, "") # protocolFromURI

\* applyParameterBySinkURI: the two entries recorded for the atomicity
PutTxnAtomicity(m, s, txnAtomicityFromURI) ==
    [cfgInSinkURI |-> MapPut(m.cfgInSinkURI, TxnAtomicityKey, txnAtomicityFromURI),
     cfgInFile |-> MapPut(m.cfgInFile, TxnAtomicityKey,
                          GetOrZero(s.TxnAtomicity, unknownTxnAtomicity))]

PutProtocolMut(m, s, protocolFromURI) ==
    [cfgInSinkURI |-> MapPut(m.cfgInSinkURI, ProtocolKey, protocolFromURI),
     cfgInFile |-> MapPut(m.cfgInFile, TxnAtomicityKey,
                          GetOrZero(s.Protocol, ""))]

\* applyParameterBySinkURI: the two entries recorded for the protocol
PutProtocol(m, s, protocolFromURI) ==
    [cfgInSinkURI |-> MapPut(m.cfgInSinkURI, ProtocolKey, protocolFromURI),
     cfgInFile |-> MapPut(m.cfgInFile, ProtocolKey, GetOrZero(s.Protocol, ""))]

\* applyParameterBySinkURI: the URI's atomicity is the config's from now on
SetTxnAtomicity(s, txnAtomicityFromURI) ==
    [s EXCEPT !.TxnAtomicity = AddressOf(txnAtomicityFromURI)]

SetProtocolMut(s, protocolFromURI) ==
    IF ProtocolConflict(s, protocolFromURI)
    THEN s
    ELSE [s EXCEPT !.Protocol = AddressOf(protocolFromURI)]

\* applyParameterBySinkURI: the URI's protocol is the config's from now on
SetProtocol(s, protocolFromURI) ==
    [s EXCEPT !.Protocol = AddressOf(protocolFromURI)]

\* applyParameterBySinkURI, getError: what the call may return, one value
\* for each order the two range loops may take
getError(m) ==
    IF Cardinality(DOMAIN m.cfgInSinkURI) # Cardinality(DOMAIN m.cfgInFile)
    THEN {Err("panic")}
    ELSE IF Cardinality(DOMAIN m.cfgInSinkURI) = 0
            /\ Cardinality(DOMAIN m.cfgInFile) = 0
         THEN {ErrNil}
         ELSE {[code |-> "ErrIncompatibleSinkConfig", inURI |-> u, inFile |-> f] :
                  u \in getErrMsg(m.cfgInSinkURI), f \in getErrMsg(m.cfgInFile)}

\* applyParameterBySinkURI without its return: the config it leaves and the
\* two maps it fills
applyParameters(s, sinkURI) ==
    LET txnAtomicityFromURI == sinkURI.Query[TxnAtomicityKey]
        protocolFromURI == sinkURI.Query[ProtocolKey]
        m0 == [cfgInSinkURI |-> EmptyMap, cfgInFile |-> EmptyMap]
        m1 == IF txnAtomicityFromURI # unknownTxnAtomicity
                 /\ TxnAtomicityConflict(s, txnAtomicityFromURI)
              THEN PutTxnAtomicity(m0, s, txnAtomicityFromURI)
              ELSE m0
        s1 == IF txnAtomicityFromURI # unknownTxnAtomicity
              THEN SetTxnAtomicity(s, txnAtomicityFromURI)
              ELSE s
        m2 == IF protocolFromURI # "" /\ ProtocolConflict(s1, protocolFromURI)
              THEN PutProtocol(m1, s1, protocolFromURI)
              ELSE m1
        s2 == IF protocolFromURI # ""
              THEN SetProtocol(s1, protocolFromURI)
              ELSE s1
    IN  [s |-> s2, cfgInSinkURI |-> m2.cfgInSinkURI, cfgInFile |-> m2.cfgInFile]

\* applyParameterBySinkURI: every outcome of one call; each is the config
\* left behind, the error returned and the two maps
applyParameterBySinkURI(s, sinkURI) ==
    IF sinkURI.isNil
    THEN {[s |-> s, err |-> ErrNil, cfgInSinkURI |-> EmptyMap,
           cfgInFile |-> EmptyMap]}
    ELSE LET a == applyParameters(s, sinkURI) IN
         {[s |-> a.s, err |-> e, cfgInSinkURI |-> a.cfgInSinkURI,
           cfgInFile |-> a.cfgInFile] : e \in getError(a)}

ProtocolForSchemeMut(s, scheme) ==
    IF IsMQScheme(scheme)
    THEN ParseSinkProtocolFromString(GetOrZero(s.Protocol, "")).err
    ELSE IF IsMySQLCompatibleScheme(scheme) /\ ~IsNil(s.Protocol)
         THEN Err("ErrSinkURIInvalid")
         ELSE ErrNil

\* validateAndAdjustSinkURI: the protocol against the scheme
ProtocolForScheme(s, scheme) ==
    IF IsMQScheme(scheme) \/ IsStorageScheme(scheme)
    THEN ParseSinkProtocolFromString(GetOrZero(s.Protocol, "")).err
    ELSE IF IsMySQLCompatibleScheme(scheme) /\ ~IsNil(s.Protocol)
         THEN Err("ErrSinkURIInvalid")
         ELSE ErrNil

validateTxnAtomicityMut(s, scheme) ==
    IF GetOrZero(s.TxnAtomicity, unknownTxnAtomicity) = tableTxnAtomicity
    THEN ErrNil
    ELSE validate(GetOrZero(s.TxnAtomicity, unknownTxnAtomicity), scheme)

\* validateAndAdjustSinkURI: the atomicity against the scheme
validateTxnAtomicity(s, scheme) ==
    validate(GetOrZero(s.TxnAtomicity, unknownTxnAtomicity), scheme)

\* validateAndAdjustSinkURI: every outcome of one call
validateAndAdjustSinkURI(s, sinkURI) ==
    IF sinkURI.isNil
    THEN {[s |-> s, err |-> ErrNil]}
    ELSE {IF a.err.code \notin {"nil", "ErrIncompatibleSinkConfig"}
          THEN [s |-> a.s, err |-> a.err]
          ELSE IF validateTxnAtomicity(a.s, sinkURI.Scheme) # ErrNil
               THEN [s |-> a.s, err |-> validateTxnAtomicity(a.s, sinkURI.Scheme)]
               ELSE [s |-> a.s, err |-> ProtocolForScheme(a.s, sinkURI.Scheme)] :
             a \in applyParameterBySinkURI(s, sinkURI)}

\* strings.ContainsRune and strings.Contains on a string held as the
\* sequence of its characters
ContainsRune(str, r) == \E i \in 1..Len(str) : str[i] = r

Contains(str, substr) ==
    \E i \in 0..(Len(str) - Len(substr)) :
        SubSeq(str, i + 1, i + Len(substr)) = substr

\* CSVConfig.validateAndAdjust
CSVValidateAndAdjust(c) ==
    IF c.isNil THEN ErrNil
    ELSE IF Len(c.Quote) > 1 THEN Err("ErrSinkInvalidConfig")
    ELSE IF Len(c.Quote) = 1 /\ (c.Quote[1] = CR \/ c.Quote[1] = LF)
         THEN Err("ErrSinkInvalidConfig")
    ELSE IF Len(c.Delimiter) = 0 THEN Err("ErrSinkInvalidConfig")
    ELSE IF ContainsRune(c.Delimiter, CR) \/ ContainsRune(c.Delimiter, LF)
         THEN Err("ErrSinkInvalidConfig")
    ELSE IF Len(c.Quote) > 0 /\ Contains(c.Delimiter, c.Quote)
         THEN Err("ErrSinkInvalidConfig")
    ELSE IF c.BinaryEncodingMethod \notin {BinaryEncodingHex, BinaryEncodingBase64}
         THEN Err("ErrSinkInvalidConfig")
    ELSE ErrNil

\* strings.ToLower on the separators the configurations here carry
ToLower(str) ==
    CASE str = "Day" -> "day"
      [] str = "NONE" -> "none"
      [] OTHER -> str

\* DateSeparator.FromString
FromString(separator) ==
    IF ToLower(separator) \in {"none", "year", "month", "day"}
    THEN ErrNil
    ELSE Err("ErrStorageSinkInvalidDateSeparator")

\* validateAndAdjust, the loop over the dispatch rules: the rules as the
\* loop leaves them and the error it stops with
RECURSIVE AdjustDispatchRules(_, _)
AdjustDispatchRules(rules, i) ==
    IF i > Len(rules) THEN [rules |-> rules, err |-> ErrNil]
    ELSE IF rules[i].DispatcherRule # "" /\ rules[i].PartitionRule # ""
         THEN [rules |-> rules, err |-> Err("ErrSinkInvalidConfig")]
         ELSE IF rules[i].DispatcherRule # ""
              THEN AdjustDispatchRules(
                       [rules EXCEPT ![i] = [DispatcherRule |-> "",
                                             PartitionRule |-> rules[i].DispatcherRule]],
                       i + 1)
              ELSE AdjustDispatchRules(rules, i + 1)

DefaultTerminatorMut(s) == [s EXCEPT !.Terminator = AddressOf(CRLF)]

\* validateAndAdjust: a terminator that is not set becomes CRLF
DefaultTerminator(s) ==
    IF IsNil(s.Terminator)
    THEN [s EXCEPT !.Terminator = AddressOf(CRLF)]
    ELSE s

\* validateAndAdjust: the part for a storage sink
StorageAdjust(s) ==
    IF Len(GetOrZero(s.DateSeparator, "")) > 0
       /\ FromString(GetOrZero(s.DateSeparator, "")) # ErrNil
    THEN [s |-> s, err |-> Err("ErrSinkInvalidConfig")]
    ELSE LET s1 == IF GetOrZero(s.FileIndexWidth, 0) < MinFileIndexWidth
                      \/ GetOrZero(s.FileIndexWidth, 0) > MaxFileIndexWidth
                   THEN [s EXCEPT !.FileIndexWidth = AddressOf(DefaultFileIndexWidth)]
                   ELSE s
         IN  [s |-> s1, err |-> CSVValidateAndAdjust(s1.CSVConfig)]

\* validateAndAdjust after validateAndAdjustSinkURI has passed
Adjust(s, sinkURI) ==
    IF IsMySQLCompatibleScheme(sinkURI.Scheme) THEN [s |-> s, err |-> ErrNil]
    ELSE LET d == AdjustDispatchRules(s.DispatchRules, 1)
             s1 == [s EXCEPT !.DispatchRules = d.rules]
             s2 == DefaultTerminator(s1)
             protocol == ParseSinkProtocolFromString(GetOrZero(s2.Protocol, "")).protocol
         IN  IF d.err # ErrNil THEN [s |-> s1, err |-> d.err]
             ELSE IF GetOrZero(s1.EncoderConcurrency, 0) < 0
                  THEN [s |-> s1, err |-> Err("ErrSinkInvalidConfig")]
             ELSE IF GetOrZero(s2.DeleteOnlyOutputHandleKeyColumns, FALSE)
                     /\ protocol = ProtocolCsv
                  THEN [s |-> s2, err |-> Err("ErrSinkInvalidConfig")]
             ELSE IF IsStorageScheme(sinkURI.Scheme)
                  THEN StorageAdjust(s2)
                  ELSE [s |-> s2, err |-> ErrNil]

\* validateAndAdjust: every outcome of one call; reading the scheme of a nil
\* URI is a nil dereference
validateAndAdjust(s, sinkURI) ==
    {IF v.err # ErrNil THEN v
     ELSE IF sinkURI.isNil THEN [s |-> v.s, err |-> Err("panic")]
     ELSE Adjust(v.s, sinkURI) : v \in validateAndAdjustSinkURI(s, sinkURI)}

CfgParamsChangedMut(s, oldSinkConfig) ==
    ~SamePtr(s.Protocol, oldSinkConfig.Protocol)

\* CheckCompatibilityWithSinkURI: the two pointer comparisons
CfgParamsChanged(s, oldSinkConfig) ==
    \/ ~SamePtr(s.Protocol, oldSinkConfig.Protocol)
    \/ ~SamePtr(s.TxnAtomicity, oldSinkConfig.TxnAtomicity)

\* CheckCompatibilityWithSinkURI, isURIParamsChanged: the URI applied to a
\* copy of the old config is incompatible with it
URIParamsChanged(oldCfg, sinkURI) ==
    \E a \in applyParameterBySinkURI(oldCfg, sinkURI) :
        a.err.code = "ErrIncompatibleSinkConfig"

\* CheckCompatibilityWithSinkURI: every outcome of one call; parsed tells
\* whether url.Parse accepted the string
CheckCompatibilityWithSinkURI(s, oldSinkConfig, parsed, sinkURI) ==
    IF ~parsed THEN {[s |-> s, err |-> Err("ErrSinkURIInvalid")]}
    ELSE IF ~URIParamsChanged(oldSinkConfig, sinkURI)
            /\ ~CfgParamsChanged(s, oldSinkConfig)
         THEN {[s |-> s, err |-> ErrNil]}
         ELSE {IF URIParamsChanged(oldSinkConfig, sinkURI)
                  /\ a.err.code = "ErrIncompatibleSinkConfig"
               THEN [s |-> a.s, err |-> ErrNil]
               ELSE [s |-> a.s, err |-> a.err] :
                  a \in applyParameterBySinkURI(s, sinkURI)}

\* the configuration variable while no call has been drawn
NoCall == [pc |-> "idle"]

\* ------------------------------------------------------------------ state
VARIABLES
    maxResolvedTs,     \* EventTableSink.maxResolvedTs
    eventBuffer,       \* EventTableSink.eventBuffer
    state,             \* EventTableSink.state
    progressTracker,   \* EventTableSink.progressTracker
    backendDead,       \* what backendSink.Dead() reports
    closePc,           \* where the scheduler's Close call stands
    closeDead,         \* the argument Close passed to waitClosed
    appended,          \* history: every event appended, in order
    late,              \* history: ids of events appended at or below the watermark
    writes,            \* history: the WriteEvents calls, in order: the batch,
                       \*          the watermark of the call, how many items the
                       \*          tracker had been given when it was made, what
                       \*          WriteEvents answered and what UpdateResolvedTs
                       \*          returned
    enqueued,          \* history: every item ever queued in the tracker
    fired,             \* history: the ackIds whose handle has been invoked
    once,              \* the same run with every handle invoked at most once
    lastCkpt,          \* history: the last value GetCheckpointTs returned
    skipped,           \* history: some UpdateResolvedTs took the early return
    cfg                \* the sink configuration under validation: the call's
                       \*          inputs and, once made, what it left and returned

vars == <<maxResolvedTs, eventBuffer, state, progressTracker, backendDead,
          closePc, closeDead, appended, late, writes, enqueued, fired, once,
          lastCkpt, skipped, cfg>>

Ctx(st, tr) == [state |-> st, pt |-> tr, rets |-> <<>>, cas |-> <<>>]

\* the last of the values returned, or the one before when none was
LastOf(last, rets) == IF rets = <<>> THEN last ELSE rets[Len(rets)]

\* the run with single acks: state cell, tracker, last checkpoint returned
Once(st, tr, rets) ==
    [state |-> st, pt |-> tr, lastCkpt |-> LastOf(once.lastCkpt, rets)]

RECURSIVE Flatten(_)
Flatten(ws) ==
    IF ws = <<>> THEN <<>> ELSE Head(ws).batch \o Flatten(Tail(ws))

\* every event handed to the backend so far; the k-th one carries ackId k
written == Flatten(writes)

\* New: the sink right after construction
SinkInit ==
    /\ maxResolvedTs = NewResolvedTs(0)
    /\ eventBuffer = <<>>
    /\ state = TableSinkSinking
    /\ progressTracker = newProgressTracker
    /\ backendDead = FALSE
    /\ closePc = "idle"
    /\ closeDead = FALSE
    /\ appended = <<>>
    /\ late = {}
    /\ writes = <<>>
    /\ enqueued = <<>>
    /\ fired = {}
    /\ once = [state |-> TableSinkSinking, pt |-> newProgressTracker,
               lastCkpt |-> NewResolvedTs(0)]
    /\ lastCkpt = NewResolvedTs(0)
    /\ skipped = FALSE

\* a table sink; no configuration call is in progress
Init ==
    /\ SinkInit
    /\ cfg = NoCall

\* the rows of one append: commitTs non-decreasing, not below the last append
RowsInputs ==
    LET lo == IF appended = <<>> THEN 1 ELSE appended[Len(appended)].commitTs IN
    {s \in UNION {[1..n -> lo..MaxTs] : n \in 1..(MaxEvents - Len(appended))} :
        \A k \in 1..(Len(s) - 1) : s[k] <= s[k + 1]}

AppendRowChangedEvents ==
    \E ts \in RowsInputs :
        LET rows == [k \in 1..Len(ts) |->
                        [id |-> Len(appended) + k, commitTs |-> ts[k]]]
        IN  /\ eventBuffer' = AppenderAppend(eventBuffer, rows)
            /\ appended' = appended \o rows
            /\ late' = late \cup
                  {rows[k].id : k \in {j \in 1..Len(rows) :
                                         rows[j].commitTs <= maxResolvedTs.Ts}}
            /\ UNCHANGED <<maxResolvedTs, state, progressTracker, backendDead,
                           closePc, closeDead, writes, enqueued, fired, once,
                           lastCkpt,
                   skipped, cfg>>

WriteResultMut(err) == [kind |-> "nil", err |-> err]

\* what UpdateResolvedTs returns when WriteEvents answered err:
\* nil, or SinkInternalError{err}
WriteResult(err) ==
    [kind |-> IF err = "nil" THEN "nil" ELSE "SinkInternalError", err |-> err]

\* UpdateResolvedTs(r); err is what backendSink.WriteEvents answers
UpdateResolvedTsAt(r, err) ==
    IF SkipFlush(maxResolvedTs, r)
    THEN /\ err = "nil"
         /\ skipped' = TRUE
         /\ UNCHANGED <<maxResolvedTs, eventBuffer, state, progressTracker,
                        backendDead, closePc, closeDead, appended, late,
                        writes, enqueued, fired, once, lastCkpt, cfg>>
    ELSE LET i == Search(0, Len(eventBuffer), eventBuffer, r.Ts)
             resolvedEvents == ResolvedEvents(eventBuffer, i)
             n == Len(resolvedEvents)
             pt1 == IF i = 0 THEN EmptyFlush(progressTracker, r)
                    ELSE FlushTracker(progressTracker, n, r)
             once1 == IF i = 0 THEN EmptyFlush(once.pt, r)
                      ELSE FlushTracker(once.pt, n, r)
             enq1 == enqueued \o
                       SubSeq(pt1.Q, Len(progressTracker.Q) + 1, Len(pt1.Q))
         IN  /\ maxResolvedTs' = MaxResolvedAfter(maxResolvedTs, r)
             /\ eventBuffer' = IF i = 0 THEN eventBuffer
                               ELSE RestEvents(eventBuffer, i)
             /\ progressTracker' = pt1
             /\ once' = Once(once.state, once1, <<>>)
             /\ enqueued' = enq1
             /\ writes' = Append(writes, [batch |-> IF i = 0 THEN <<>>
                                                    ELSE resolvedEvents,
                                          r |-> r, enq |-> Len(enq1),
                                          answer |-> err,
                                          ret |-> WriteResult(err)])
             /\ UNCHANGED <<state, backendDead, closePc, closeDead, appended,
                            late, fired, lastCkpt,
                   skipped, cfg>>

\* the producer advances the watermark and the backend accepts the batch
UpdateResolvedTs == \E r \in ResolvedTsInputs : UpdateResolvedTsAt(r, "nil")

\* the producer advances the watermark and WriteEvents answers an error
UpdateResolvedTsFails ==
    \E r \in ResolvedTsInputs : UpdateResolvedTsAt(r, "backendError")

\* the backend invokes the callback of the event with ackId id
AckAt(id) ==
    /\ progressTracker' = ack(progressTracker, id)
    /\ once' = Once(once.state,
                    IF id \in fired THEN once.pt ELSE ack(once.pt, id), <<>>)
    /\ fired' = fired \cup {id}
    /\ UNCHANGED <<maxResolvedTs, eventBuffer, state, backendDead, closePc,
                   closeDead, appended, late, writes, enqueued, lastCkpt,
                   skipped, cfg>>

\* the callback of an event is invoked, for the first time
Ack == \E id \in 1..(progressTracker.nextAckId - 1) : id \notin fired /\ AckAt(id)

\* a callback is invoked again
AckAgain == \E id \in fired : AckAt(id)

\* the backend becomes dead, for good
BackendDies ==
    /\ ~backendDead
    /\ backendDead' = TRUE
    /\ UNCHANGED <<maxResolvedTs, eventBuffer, state, progressTracker, closePc,
                   closeDead, appended, late, writes, enqueued, fired, once,
                   lastCkpt,
                   skipped, cfg>>

GetCheckpointTs ==
    LET c == GetCheckpointTsOp(Ctx(state, progressTracker), backendDead)
        o == GetCheckpointTsOp(Ctx(once.state, once.pt), backendDead)
    IN  /\ state' = c.state
        /\ progressTracker' = c.pt
        /\ once' = Once(o.state, o.pt, o.rets)
        /\ lastCkpt' = LastOf(lastCkpt, c.rets)
        /\ UNCHANGED <<maxResolvedTs, eventBuffer, backendDead, closePc,
                       closeDead, appended, late, writes, enqueued, fired,
                   skipped, cfg>>

AsyncClose ==
    LET a == AsyncCloseOp(Ctx(state, progressTracker), backendDead)
        o == AsyncCloseOp(Ctx(once.state, once.pt), backendDead)
    IN  /\ state' = a.c.state
        /\ progressTracker' = a.c.pt
        /\ once' = Once(o.c.state, o.c.pt, o.c.rets)
        /\ lastCkpt' = LastOf(lastCkpt, a.c.rets)
        /\ UNCHANGED <<maxResolvedTs, eventBuffer, backendDead, closePc,
                       closeDead, appended, late, writes, enqueued, fired,
                   skipped, cfg>>

\* Close up to the call of waitClosed: freeze, then Dead() is evaluated
CloseFreeze ==
    /\ closePc \in {"idle", "returned"}
    /\ LET c == freezeOp(Ctx(state, progressTracker), backendDead)
           o == freezeOp(Ctx(once.state, once.pt), backendDead)
       IN  /\ state' = c.state
           /\ progressTracker' = c.pt
           /\ once' = Once(o.state, o.pt, o.rets)
           /\ lastCkpt' = LastOf(lastCkpt, c.rets)
    /\ closePc' = "waitClosed"
    /\ closeDead' = backendDead
    /\ UNCHANGED <<maxResolvedTs, eventBuffer, backendDead, appended, late,
                   writes, enqueued, fired,
                   skipped, cfg>>

\* Close from the return of waitClosed: markAsClosed, then Close returns
CloseReturn ==
    /\ closePc = "waitClosed"
    /\ LET cc == checkClosed(progressTracker, closeDead)
           oc == checkClosed(once.pt, closeDead)
           c == markAsClosedOp(Ctx(state, cc.pt), backendDead)
           o == markAsClosedOp(Ctx(once.state, oc.pt), backendDead)
       IN  /\ cc.closed
           /\ state' = c.state
           /\ progressTracker' = c.pt
           /\ once' = Once(o.state, o.pt, o.rets)
           /\ lastCkpt' = LastOf(lastCkpt, c.rets)
    /\ closePc' = "returned"
    /\ UNCHANGED <<maxResolvedTs, eventBuffer, backendDead, closeDead, appended,
                   late, writes, enqueued, fired,
                   skipped, cfg>>

Next ==
    \/ AppendRowChangedEvents
    \/ UpdateResolvedTs
    \/ Ack
    \/ BackendDies
    \/ GetCheckpointTs
    \/ AsyncClose
    \/ CloseFreeze
    \/ CloseReturn

\* the backend invokes every callback at most once
Spec == Init /\ [][Next]_vars

\* the backend may invoke a callback any number of times
NextDup == Next \/ AckAgain

SpecDup == Init /\ [][NextDup]_vars

\* the backend may answer WriteEvents with an error
NextErr == Next \/ UpdateResolvedTsFails
SpecErr == Init /\ [][NextErr]_vars

\* a backend that is alive invokes the handles of the events it accepted
AliveAck == ~backendDead /\ Ack

\* The thread in Close runs on when waitClosed can return, the scheduler
\* keeps polling GetCheckpointTs, and an alive backend keeps acking.
SpecLive ==
    /\ Init
    /\ [][Next]_vars
    /\ WF_vars(CloseReturn)
    /\ WF_vars(GetCheckpointTs)
    /\ WF_vars(AliveAck)

\* --------------------------------------- the sink configuration calls
sinkVars == <<maxResolvedTs, eventBuffer, state, progressTracker, backendDead,
              closePc, closeDead, appended, late, writes, enqueued, fired,
              once, lastCkpt, skipped>>

\* a SinkConfig with nothing set
EmptySinkConfig ==
    [TxnAtomicity |-> NilPtr, Protocol |-> NilPtr, DispatchRules |-> <<>>,
     CSVConfig |-> [isNil |-> TRUE], EncoderConcurrency |-> NilPtr,
     Terminator |-> NilPtr, DateSeparator |-> NilPtr,
     FileIndexWidth |-> NilPtr, DeleteOnlyOutputHandleKeyColumns |-> NilPtr]

TxnAtomicityValues == {"", "none", "table", "bogus"}
ProtocolValues == {"", "open", "canal-json", "csv", "bogus"}

\* the configs that differ in the two parameters a sink URI can carry
CoreConfigs ==
    {[EmptySinkConfig EXCEPT !.TxnAtomicity = t, !.Protocol = p] :
        t \in {NilPtr} \cup {[addr |-> "s.TxnAtomicity", val |-> v] :
                                v \in TxnAtomicityValues},
        p \in {NilPtr} \cup {[addr |-> "s.Protocol", val |-> v] :
                                v \in ProtocolValues}}

\* the sink URIs: a scheme of each family and the two query parameters,
\* "" for a parameter the URI does not carry
URLInputs ==
    {URL(scheme, t, p) : scheme \in {"mysql", "kafka", "s3", "blackhole"},
                         t \in {"", "none", "table", "bogus"},
                         p \in {"", "open", "csv", "bogus"}}

CSVInputs ==
    {[isNil |-> FALSE, Delimiter |-> d, Quote |-> q, BinaryEncodingMethod |-> b] :
        d \in {<<",">>}, q \in {<<>>, <<"\"">>, <<"q", "q">>, <<CR>>},
        b \in {BinaryEncodingHex}}
    \cup
    {[isNil |-> FALSE, Delimiter |-> d, Quote |-> <<"\"">>,
      BinaryEncodingMethod |-> BinaryEncodingBase64] :
        d \in {<<>>, <<",", LF>>, <<"|", "\"">>, <<"|", "|">>}}
    \cup
    {[isNil |-> FALSE, Delimiter |-> <<",">>, Quote |-> <<"\"">>,
      BinaryEncodingMethod |-> "utf8"]}

DispatchRulesInputs ==
    {<<[DispatcherRule |-> "ts", PartitionRule |-> ""]>>,
     <<[DispatcherRule |-> "", PartitionRule |-> "index-value"]>>,
     <<[DispatcherRule |-> "ts", PartitionRule |-> ""],
       [DispatcherRule |-> "ts", PartitionRule |-> "index-value"]>>}

\* the configs that set one of the fields only validateAndAdjust reads
OtherFieldConfigs ==
    {[EmptySinkConfig EXCEPT !.DispatchRules = d] : d \in DispatchRulesInputs}
    \cup {[EmptySinkConfig EXCEPT !.EncoderConcurrency =
               [addr |-> "s.EncoderConcurrency", val |-> n]] : n \in {0 - 1, 4}}
    \cup {[EmptySinkConfig EXCEPT !.DeleteOnlyOutputHandleKeyColumns =
               [addr |-> "s.DeleteOnlyOutputHandleKeyColumns", val |-> TRUE]]}
    \cup {[EmptySinkConfig EXCEPT !.DateSeparator =
               [addr |-> "s.DateSeparator", val |-> d]] :
             d \in {"", "Day", "month", "week"}}
    \cup {[EmptySinkConfig EXCEPT !.FileIndexWidth =
               [addr |-> "s.FileIndexWidth", val |-> w]] :
             w \in {MinFileIndexWidth - 1, MinFileIndexWidth,
                    MaxFileIndexWidth, MaxFileIndexWidth + 1}}
    \cup {[EmptySinkConfig EXCEPT !.CSVConfig = c] : c \in CSVInputs}

\* the configs validateAndAdjust is given
AdjustConfigs ==
    {[c EXCEPT !.Terminator = t] :
        c \in CoreConfigs, t \in {NilPtr, [addr |-> "s.Terminator", val |-> LF]}}
    \cup
    {[c EXCEPT !.Terminator = t, !.Protocol = p] :
        c \in OtherFieldConfigs,
        t \in {NilPtr, [addr |-> "s.Terminator", val |-> LF]},
        p \in {NilPtr, [addr |-> "s.Protocol", val |-> ProtocolCsv]}}

\* the old configs CheckCompatibilityWithSinkURI compares s with: each of the
\* two fields is s's own pointer, nil, or a pointer of the old config
OldConfigs(s) ==
    {[EmptySinkConfig EXCEPT !.TxnAtomicity = t, !.Protocol = p] :
        t \in {s.TxnAtomicity, NilPtr}
              \cup {[addr |-> "old.TxnAtomicity", val |-> v] :
                       v \in {"", "none", "table"}},
        p \in {s.Protocol, NilPtr}
              \cup {[addr |-> "old.Protocol", val |-> v] :
                       v \in {"", "open", "canal-json"}}}

\* the sink URI strings CheckCompatibilityWithSinkURI is given: what
\* url.Parse makes of them
URIStrInputs ==
    {[parsed |-> TRUE, uri |-> URL("kafka", t, p)] :
        t \in {"", "none", "table"}, p \in {"", "open", "canal-json"}}
    \cup {[parsed |-> FALSE, uri |-> NilURL]}

\* a call about to be made: which one, and its arguments
CfgInputs ==
    {[pc |-> "input", op |-> "applyParameterBySinkURI", s |-> s, uri |-> u] :
        s \in CoreConfigs, u \in URLInputs \cup {NilURL}}
    \cup
    {[pc |-> "input", op |-> "validateAndAdjustSinkURI", s |-> s, uri |-> u] :
        s \in CoreConfigs, u \in URLInputs \cup {NilURL}}
    \cup
    {[pc |-> "input", op |-> "validateAndAdjust", s |-> s, uri |-> u] :
        s \in AdjustConfigs, u \in URLInputs \cup {NilURL}}
    \cup
    UNION {{[pc |-> "input", op |-> "CheckCompatibilityWithSinkURI", s |-> s,
             old |-> o, parsed |-> u.parsed, uri |-> u.uri] :
               o \in OldConfigs(s), u \in URIStrInputs} : s \in CoreConfigs}

InitCfg ==
    /\ SinkInit
    /\ cfg \in CfgInputs

\* s.applyParameterBySinkURI(uri)
ApplyParameterBySinkURI ==
    /\ cfg.pc = "input"
    /\ cfg.op = "applyParameterBySinkURI"
    /\ \E a \in applyParameterBySinkURI(cfg.s, cfg.uri) :
          cfg' = [pc |-> "applied", s |-> cfg.s, uri |-> cfg.uri, ret |-> a]
    /\ UNCHANGED sinkVars

\* the same call once more on a config equal to the one the first was given
ApplySameAgain ==
    /\ cfg.pc = "applied"
    /\ \E a \in applyParameterBySinkURI(cfg.s, cfg.uri) :
          cfg' = [pc |-> "appliedAgain", s |-> cfg.s, uri |-> cfg.uri,
                  ret |-> cfg.ret, ret2 |-> a]
    /\ UNCHANGED sinkVars

\* the same call once more on the config object the first call left
ApplyToReconciled ==
    /\ cfg.pc = "applied"
    /\ \E a \in applyParameterBySinkURI(cfg.ret.s, cfg.uri) :
          cfg' = [pc |-> "reapplied", s |-> cfg.s, uri |-> cfg.uri,
                  ret |-> cfg.ret, ret2 |-> a]
    /\ UNCHANGED sinkVars

\* s.validateAndAdjustSinkURI(uri)
ValidateAndAdjustSinkURI ==
    /\ cfg.pc = "input"
    /\ cfg.op = "validateAndAdjustSinkURI"
    /\ \E v \in validateAndAdjustSinkURI(cfg.s, cfg.uri) :
          cfg' = [pc |-> "validatedSinkURI", s |-> cfg.s, uri |-> cfg.uri,
                  ret |-> v]
    /\ UNCHANGED sinkVars

\* s.validateAndAdjust(uri)
ValidateAndAdjust ==
    /\ cfg.pc = "input"
    /\ cfg.op = "validateAndAdjust"
    /\ \E v \in validateAndAdjust(cfg.s, cfg.uri) :
          cfg' = [pc |-> "validated", s |-> cfg.s, uri |-> cfg.uri, ret |-> v]
    /\ UNCHANGED sinkVars

\* s.CheckCompatibilityWithSinkURI(old, uriStr)
CheckCompatibility ==
    /\ cfg.pc = "input"
    /\ cfg.op = "CheckCompatibilityWithSinkURI"
    /\ \E v \in CheckCompatibilityWithSinkURI(cfg.s, cfg.old, cfg.parsed, cfg.uri) :
          cfg' = [pc |-> "checked", s |-> cfg.s, old |-> cfg.old,
                  parsed |-> cfg.parsed, uri |-> cfg.uri, ret |-> v]
    /\ UNCHANGED sinkVars

NextCfg ==
    \/ ApplyParameterBySinkURI
    \/ ApplySameAgain
    \/ ApplyToReconciled
    \/ ValidateAndAdjustSinkURI
    \/ ValidateAndAdjust
    \/ CheckCompatibility

\* one configuration call on arguments drawn at the start
SpecCfg == InitCfg /\ [][NextCfg]_vars

\* ----------------------------------------------------------------- claims
\* what GetCheckpointTs returns when it is called in the current state
CheckpointNow ==
    LET c == GetCheckpointTsOp(Ctx(state, progressTracker), backendDead)
    IN  c.rets[Len(c.rets)]

\* the callback of appended event e has been invoked
AckFired(e) == \E k \in 1..Len(written) : written[k].id = e.id /\ k \in fired

\* the positions of the markers in a sequence of tracker items
MarkersOf(items) == {j \in 1..Len(items) : items[j].kind = "ResolvedMarker"}

\* the position of the first event of the log whose callback has not been
\* invoked, or one past the end of the log
FirstUnfired(log, done) ==
    LET open == {j \in 1..Len(log) :
                    log[j].kind = "EventPending" /\ log[j].ackId \notin done}
    IN  IF open = {} THEN Len(log) + 1
        ELSE CHOOSE j \in open : \A k \in open : j <= k

\* the last marker of the log with every event before it acked, or init
ExpectedCheckpoint(log, done, init) ==
    LET ms == {j \in MarkersOf(log) : j < FirstUnfired(log, done)}
    IN  IF ms = {} THEN init
        ELSE log[CHOOSE j \in ms : \A k \in ms : k <= j].resolvedTs

\* C1: every value returned by GetCheckpointTs is greater than or equal to
\* every value it returned earlier, whatever the interleaving of appends,
\* advances, acks, polls, closes and the backend becoming dead.
C1_MonotoneCheckpoint == [][EqualOrGreater(lastCkpt', lastCkpt)]_vars

\* C2: in every reachable state the value returned by GetCheckpointTs, the
\* last one returned and the one a call would return now, is less than or
\* equal to maxResolvedTs.
C2_CheckpointAtMostResolved ==
    /\ EqualOrGreater(maxResolvedTs, lastCkpt)
    /\ EqualOrGreater(maxResolvedTs, CheckpointNow)

\* C2 witness: a dead backend let the close probe move the checkpoint up to
\* the watermark itself, and GetCheckpointTs returned it.
C2_Witness ==
    /\ backendDead
    /\ state = TableSinkStopped
    /\ lastCkpt.Ts > 0
    /\ lastCkpt = maxResolvedTs
    /\ fired = {}
    /\ written # <<>>

\* C3 as stated: while the backend is alive, whenever GetCheckpointTs returns
\* a value >= t, every appended event with commitTs <= t has had its ack
\* fired.
C3_SafeAdvanceAnyEvent ==
    ~backendDead =>
        \A k \in 1..Len(appended) :
            appended[k].commitTs <= CheckpointNow.Ts => AckFired(appended[k])

\* C3 amended: while the backend is alive, whenever GetCheckpointTs returns a
\* value >= t, every event with commitTs <= t that was appended while
\* maxResolvedTs.Ts was still below its commitTs has had its ack fired.
C3_SafeAdvance ==
    ~backendDead =>
        \A k \in 1..Len(appended) :
            (appended[k].commitTs <= CheckpointNow.Ts /\ appended[k].id \notin late)
                => AckFired(appended[k])

\* C3 witness: GetCheckpointTs has returned a checkpoint that covers two
\* events appended above the watermark, both acked, with the backend alive.
C3_Witness ==
    /\ ~backendDead
    /\ Len(appended) >= 2
    /\ late = {}
    /\ lastCkpt = CheckpointNow
    /\ appended[2].commitTs <= lastCkpt.Ts
    /\ \A k \in 1..2 : AckFired(appended[k])

\* C4: the events passed to WriteEvents so far, in order, are a prefix of the
\* appended events in commitTs order, and no buffered event has a commitTs
\* below that of an event already handed over.
C4_NoSkippedEvents ==
    /\ \A k \in 1..(Len(appended) - 1) :
           appended[k].commitTs <= appended[k + 1].commitTs
    /\ Len(written) <= Len(appended)
    /\ written = SubSeq(appended, 1, Len(written))
    /\ \A j \in 1..Len(written), k \in 1..Len(eventBuffer) :
           written[j].commitTs <= eventBuffer[k].commitTs

\* C4 witness: two non-empty batches have been written, in commitTs order.
C4_Witness ==
    /\ Len(writes) >= 2
    /\ writes[1].batch # <<>>
    /\ writes[2].batch # <<>>
    /\ writes[1].batch[1].commitTs < writes[2].batch[1].commitTs

\* C5: while the sink is Sinking and the backend is alive, GetCheckpointTs
\* returns exactly the largest marker enqueued so far such that every event
\* enqueued before it has been acked, the initial value when there is none.
C5_ExactCheckpoint ==
    (state = TableSinkSinking /\ ~backendDead) =>
        CheckpointNow = ExpectedCheckpoint(enqueued, fired, NewResolvedTs(0))

\* C5 witness: two events sit before a marker, the second one is acked, the
\* first one is not, and GetCheckpointTs still returns the initial value.
C5_Witness ==
    /\ state = TableSinkSinking
    /\ ~backendDead
    /\ Len(enqueued) >= 3
    /\ enqueued[1].kind = "EventPending"
    /\ enqueued[2].kind = "EventPending"
    /\ enqueued[3].kind = "ResolvedMarker"
    /\ fired = {2}
    /\ CheckpointNow = NewResolvedTs(0)
    /\ progressTracker.acked = {2}

\* the outcome of checkClosed, AsyncClose and the next GetCheckpointTs on a
\* sink with state cell st and tracker tr
Outcomes(st, tr) ==
    LET g == GetCheckpointTsOp(Ctx(st, tr), backendDead)
        a == AsyncCloseOp(Ctx(st, tr), backendDead)
    IN  <<g.rets[Len(g.rets)], g.state, a.ret, a.c.state,
          checkClosed(tr, closeDead).closed>>

\* C6: a run in which ack handles are invoked again gives the same
\* GetCheckpointTs results and the same Close / AsyncClose outcomes as the
\* run in which every handle is invoked once: the two agree on the state,
\* the queue, the checkpoint last returned and on what the next call of
\* GetCheckpointTs, AsyncClose and waitClosed answers.
C6_IdempotentAck ==
    /\ state = once.state
    /\ lastCkpt = once.lastCkpt
    /\ progressTracker.Q = once.pt.Q
    /\ progressTracker.frontier = once.pt.frontier
    /\ Outcomes(state, progressTracker) = Outcomes(once.state, once.pt)

\* C6 witness: the handle of the first event was invoked again after the
\* tracker had popped it, while the second event is still waiting unacked.
C6_Witness ==
    /\ 1 \in progressTracker.acked
    /\ 1 \notin once.pt.acked
    /\ 2 \notin fired
    /\ Len(progressTracker.Q) >= 1
    /\ progressTracker.Q[1] = EventPending(2)
    /\ lastCkpt.Ts > 0

\* C7: UpdateResolvedTs(r) with r <= maxResolvedTs returns nil and leaves
\* maxResolvedTs, the event buffer, the tracker and the state unchanged and
\* calls WriteEvents not at all: the buffer, the tracker's queue and the
\* WriteEvents calls change in an UpdateResolvedTs only together with a
\* strict rise of maxResolvedTs.
C7_DuplicateAdvanceNoOp ==
    [][/\ \A r \in ResolvedTsInputs :
             (EqualOrGreater(maxResolvedTs, r) /\ UpdateResolvedTsAt(r, "nil"))
                 => /\ skipped'
                    /\ UNCHANGED <<maxResolvedTs, eventBuffer, progressTracker,
                                   state, writes, enqueued>>
       /\ (skipped' # skipped)
             => UNCHANGED <<maxResolvedTs, eventBuffer, progressTracker,
                            state, writes, enqueued>>
       /\ (writes' # writes \/ enqueued' # enqueued
             \/ Len(eventBuffer') < Len(eventBuffer))
             => /\ Less(maxResolvedTs, maxResolvedTs')
                /\ Len(writes') = Len(writes) + 1
                /\ writes'[Len(writes')].r = maxResolvedTs'
      ]_vars

\* C7 witness: an UpdateResolvedTs took the early return while the buffer
\* held an event at or below maxResolvedTs, which a flush would have drained.
C7_Witness ==
    /\ skipped
    /\ eventBuffer # <<>>
    /\ eventBuffer[1].commitTs <= maxResolvedTs.Ts
    /\ writes # <<>>

\* what an advancing UpdateResolvedTs gives the tracker: one EventPending per
\* event of the batch, with fresh ackIds, and then the marker r
FlushItems(first, n, r) ==
    [k \in 1..n |-> EventPending(first + k - 1)] \o <<ResolvedMarker(r)>>

\* the step is an UpdateResolvedTs that advances, and on it the batch is
\* exactly the buffered events with commitTs <= r, the tracker is given their
\* ack entries and then the marker r, all of it before WriteEvents is called
MarkerBehindEvents ==
    LET w == writes'[Len(writes')]
        n == Len(w.batch)
    IN  /\ w.r = maxResolvedTs'
        /\ w.batch \o eventBuffer' = eventBuffer
        /\ \A k \in 1..n : w.batch[k].commitTs <= w.r.Ts
        /\ \A k \in 1..Len(eventBuffer') : eventBuffer'[k].commitTs > w.r.Ts
        /\ enqueued' = enqueued \o FlushItems(progressTracker.nextAckId, n, w.r)
        /\ progressTracker'.Q =
               progressTracker.Q \o FlushItems(progressTracker.nextAckId, n, w.r)
        /\ w.enq = Len(enqueued')

\* C8 as stated: in every UpdateResolvedTs(r) that advances, the marker r is
\* enqueued after the ack entries of the events drained by the call and
\* before WriteEvents is invoked, behind exactly the events with
\* commitTs <= r.
C8_MarkerBeforeWriteAlways ==
    [][Less(maxResolvedTs, maxResolvedTs') => MarkerBehindEvents]_vars

\* C8 amended: in every UpdateResolvedTs(r) that advances while the tracker
\* is not frozen, the marker r is enqueued after the ack entries of the
\* events drained by the call and before WriteEvents is invoked, behind
\* exactly the events with commitTs <= r.
C8_MarkerBeforeWrite ==
    [][(Less(maxResolvedTs, maxResolvedTs') /\ ~progressTracker.frozen)
          => MarkerBehindEvents]_vars

\* C8 witness: the second advance drained one event behind an earlier batch:
\* its ack entry and then its marker are the last two items of the queue.
C8_Witness ==
    /\ Len(writes) >= 2
    /\ Len(writes[2].batch) = 1
    /\ Len(enqueued) = 4
    /\ enqueued[3] = EventPending(2)
    /\ enqueued[4] = ResolvedMarker(writes[2].r)
    /\ writes[2].enq = 4
    /\ ~progressTracker.frozen

\* the step is an UpdateResolvedTs that advances with no buffered event at or
\* below r
AdvanceNothingToFlush ==
    /\ Less(maxResolvedTs, maxResolvedTs')
    /\ \A k \in 1..Len(eventBuffer) : eventBuffer[k].commitTs > maxResolvedTs'.Ts

\* on it the marker is enqueued, WriteEvents is called once with an empty
\* batch, the buffer is unchanged and, when every event of the tracker is
\* acked, GetCheckpointTs returns r
NothingToFlushEffect ==
    /\ enqueued' = Append(enqueued, ResolvedMarker(maxResolvedTs'))
    /\ progressTracker'.Q = Append(progressTracker.Q, ResolvedMarker(maxResolvedTs'))
    /\ Len(writes') = Len(writes) + 1
    /\ writes'[Len(writes')].batch = <<>>
    /\ writes'[Len(writes')].r = maxResolvedTs'
    /\ SubSeq(writes', 1, Len(writes)) = writes
    /\ eventBuffer' = eventBuffer
    /\ (\A id \in 1..(progressTracker.nextAckId - 1) : id \in fired)
           => CheckpointNow' = maxResolvedTs'

\* C9 as stated: when UpdateResolvedTs(r) advances and no buffered event has
\* commitTs <= r.Ts, the marker r is still enqueued, WriteEvents is called
\* exactly once with an empty batch, the buffer is unchanged and, if no
\* earlier event is un-acked, the next GetCheckpointTs returns r.
C9_NothingToFlushAlways ==
    [][AdvanceNothingToFlush => NothingToFlushEffect]_vars

\* C9 amended: when UpdateResolvedTs(r) advances while the tracker is not
\* frozen and no buffered event has commitTs <= r.Ts, the marker r is
\* enqueued, WriteEvents is called exactly once with an empty batch, the
\* buffer is unchanged and, if no earlier event is un-acked, the next
\* GetCheckpointTs returns r.
C9_NothingToFlush ==
    [][(AdvanceNothingToFlush /\ ~progressTracker.frozen)
          => NothingToFlushEffect]_vars

\* C9 witness: the last call advanced over a buffer holding only a later
\* event: an empty batch was written, its marker is the last item enqueued,
\* the event is still buffered and GetCheckpointTs returns the watermark.
C9_Witness ==
    /\ writes # <<>>
    /\ writes[Len(writes)].batch = <<>>
    /\ writes[Len(writes)].r = maxResolvedTs
    /\ enqueued # <<>>
    /\ enqueued[Len(enqueued)] = ResolvedMarker(maxResolvedTs)
    /\ eventBuffer # <<>>
    /\ eventBuffer[1].commitTs > maxResolvedTs.Ts
    /\ ~progressTracker.frozen
    /\ CheckpointNow = maxResolvedTs

\* a CompareAndSwap of the state cell from old to new is a step forward
LegalSwap(p) ==
    \/ p = <<TableSinkSinking, TableSinkStopping>>
    \/ p = <<TableSinkStopping, TableSinkStopped>>

\* every swap the handler that ran on c made is a step forward
LegalSwaps(c) == \A k \in 1..Len(c.cas) : LegalSwap(c.cas[k])

\* C10: the state only ever moves Sinking -> Stopping -> Stopped: no step
\* moves it backwards, Stopped is terminal, and every swap a handler makes
\* on the state cell is Sinking -> Stopping or Stopping -> Stopped.
C10_StateMonotone ==
    [][/\ StateRank(state') >= StateRank(state)
       /\ state = TableSinkStopped => state' = TableSinkStopped
       /\ LegalSwaps(GetCheckpointTsOp(Ctx(state, progressTracker), backendDead))
       /\ LegalSwaps(freezeOp(Ctx(state, progressTracker), backendDead))
       /\ LegalSwaps(AsyncCloseOp(Ctx(state, progressTracker), backendDead).c)
       /\ closePc = "waitClosed" =>
              LegalSwaps(markAsClosedOp(Ctx(state, progressTracker), backendDead))
      ]_vars

\* C10 witness: the sink is Stopped with events still unacked in the queue,
\* Close has returned, and the producer and the backend went on after it.
C10_Witness ==
    /\ state = TableSinkStopped
    /\ closePc = "returned"
    /\ progressTracker.Q # <<>>
    /\ skipped
    /\ fired # {}

C12_AppendOnlyInSinking ==
    [][state # TableSinkSinking
          => (appended' = appended /\ Len(eventBuffer') <= Len(eventBuffer))]_vars

\* C13: after Close has returned no operation on the sink hands a non-empty
\* batch to WriteEvents.
C13_NoSendAfterClose ==
    [][(closePc = "returned" /\ writes' # writes)
          => writes'[Len(writes')].batch = <<>>]_vars

\* C14: after Close has returned no ack callback changes the tracker: the
\* invocation of a handle leaves the queue, the acked set and the frontier
\* as they are, also when Close returned on a dead backend and for handles
\* issued by an UpdateResolvedTs that ran after freeze.
C14_NoAckMutationAfterClose ==
    [][(closePc = "returned" /\ fired' # fired)
          => /\ progressTracker'.Q = progressTracker.Q
             /\ progressTracker'.acked = progressTracker.acked
             /\ progressTracker'.frontier = progressTracker.frontier]_vars

\* every ack handle the tracker has issued has been invoked
AllAcksFired == \A id \in 1..(progressTracker.nextAckId - 1) : id \in fired

\* C15: in state Stopping the checkpoint returned by GetCheckpointTs does not
\* increase unless every issued ack has fired or the backend is dead.
C15_StoppingCheckpointHeld ==
    [][(state = TableSinkStopping /\ Less(lastCkpt, lastCkpt'))
          => (AllAcksFired \/ backendDead)]_vars

\* C16: a Close that is waiting returns, with the state Stopped, once every
\* issued ack has fired or the backend is dead, also when the backend
\* became dead only after Close had begun to wait.
C16_CloseTerminates ==
    (closePc = "waitClosed" /\ (backendDead \/ AllAcksFired))
        ~> (closePc = "returned" /\ state = TableSinkStopped)

\* C17: when a close probe observes the backend dead, the checkpoint is
\* advanced to the last marker enqueued in the tracker: the GetCheckpointTs
\* of the handler that stops the sink on a dead backend returns that marker,
\* and so does every GetCheckpointTs after a Close that returned on a dead
\* backend.
C17_DeadBackendCheckpoint ==
    [][/\ (state # TableSinkStopped /\ state' = TableSinkStopped /\ backendDead)
             => lastCkpt' = progressTracker'.lastResolved
       /\ (closePc' = "returned" /\ closeDead')
             => CheckpointNow' = progressTracker'.lastResolved
      ]_vars

\* C18: AsyncClose returns true exactly when the tracker is closed at its
\* probe (queue empty or backend dead), and then the state is Stopped; when
\* it returns false the state is Stopping; and once a poll has frozen the
\* sink, a poll made when every issued ack has fired returns true.
C18_AsyncCloseExact ==
    LET a == AsyncCloseOp(Ctx(state, progressTracker), backendDead) IN
    /\ a.ret = "true" <=> (a.c.pt.Q = <<>> \/ backendDead)
    /\ a.ret = "true" => a.c.state = TableSinkStopped
    /\ a.ret = "false" => a.c.state = TableSinkStopping
    /\ (state # TableSinkSinking /\ AllAcksFired) => a.ret = "true"

\* C19: Close called again after Close has returned returns without
\* blocking and leaves the state (Stopped) and the checkpoint unchanged;
\* maxResolvedTs and the event buffer are not touched by Close at all.
C19_CloseIdempotent ==
    closePc = "returned" =>
        LET again == CloseOp(Ctx(state, progressTracker), backendDead) IN
        /\ ~again.blocks
        /\ state = TableSinkStopped
        /\ again.c.state = TableSinkStopped
        /\ CheckpointAdvance(again.c.pt).frontier = CheckpointNow

\* C20: when WriteEvents answers an error, with an empty or a non-empty
\* batch, UpdateResolvedTs returns that error wrapped as SinkInternalError
\* and the state is not changed (a Sinking sink stays Sinking).
C20_WriteErrorWrapped ==
    [][(writes' # writes /\ writes'[Len(writes')].answer # "nil")
          => /\ writes'[Len(writes')].ret.kind = "SinkInternalError"
             /\ writes'[Len(writes')].ret.err = writes'[Len(writes')].answer
             /\ state' = state]_vars

\* C20 witness: WriteEvents answered an error to an empty batch and to a
\* non-empty batch, UpdateResolvedTs returned both wrapped, the sink is Sinking.
C20_Witness ==
    /\ state = TableSinkSinking
    /\ Len(writes) = 2
    /\ writes[1].batch = <<>>
    /\ writes[2].batch # <<>>
    /\ \A k \in 1..2 : /\ writes[k].answer = "backendError"
                       /\ writes[k].ret.kind = "SinkInternalError"

\* ------------------------------------------- claims on the configuration
\* the value the sink URI supplies for a query parameter, "" for none
FromURI(key) == cfg.uri.Query[key]

\* C21: URI wins.  After applyParameterBySinkURI, for each of
\* transaction-atomicity and protocol that the URI supplies with a non-empty
\* value the config holds the URI value, whether the call returned nil or
\* ErrIncompatibleSinkConfig; a parameter the URI does not supply is left as
\* it was.
C21_URIWins ==
    cfg.pc = "applied" =>
        /\ cfg.ret.err.code \in {"nil", "ErrIncompatibleSinkConfig"}
        /\ IF FromURI(TxnAtomicityKey) # ""
           THEN /\ ~IsNil(cfg.ret.s.TxnAtomicity)
                /\ cfg.ret.s.TxnAtomicity.val = FromURI(TxnAtomicityKey)
           ELSE cfg.ret.s.TxnAtomicity = cfg.s.TxnAtomicity
        /\ IF FromURI(ProtocolKey) # ""
           THEN /\ ~IsNil(cfg.ret.s.Protocol)
                /\ cfg.ret.s.Protocol.val = FromURI(ProtocolKey)
           ELSE cfg.ret.s.Protocol = cfg.s.Protocol

\* C21 witness: the call returned ErrIncompatibleSinkConfig on a protocol the
\* config had set differently, the config holds the URI's protocol, and the
\* atomicity, which the URI does not carry, is the config's own.
C21_Witness ==
    /\ cfg.pc = "applied"
    /\ cfg.ret.err.code = "ErrIncompatibleSinkConfig"
    /\ FromURI(ProtocolKey) = "open"
    /\ cfg.s.Protocol.val = "canal-json"
    /\ cfg.ret.s.Protocol.val = "open"
    /\ FromURI(TxnAtomicityKey) = ""
    /\ cfg.s.TxnAtomicity.val = "table"
    /\ cfg.ret.s.TxnAtomicity = cfg.s.TxnAtomicity

\* the URI and the config both supply a non-empty value for the parameter
\* and the two differ
Differ(key, p) ==
    /\ FromURI(key) # ""
    /\ GetOrZero(p, "") # ""
    /\ GetOrZero(p, "") # FromURI(key)

\* C22: applyParameterBySinkURI returns ErrIncompatibleSinkConfig if and only
\* if, for transaction-atomicity or for protocol, the URI and the config both
\* supply a non-empty value and the two differ; otherwise, a config value
\* that is present but empty included, it returns nil.
C22_ConflictExactly ==
    cfg.pc = "applied" =>
        IF Differ(TxnAtomicityKey, cfg.s.TxnAtomicity)
           \/ Differ(ProtocolKey, cfg.s.Protocol)
        THEN cfg.ret.err.code = "ErrIncompatibleSinkConfig"
        ELSE cfg.ret.err.code = "nil"

\* the pairs an ErrIncompatibleSinkConfig message lists, whatever their order
Entries(msg) == {msg[i] : i \in 1..Len(msg)}

\* C23 as stated: reconciling the same (config, uri) twice yields the same
\* config and the same error or absence of error, also when the second
\* reconciliation is applied to the config object the first one reconciled.
C23_SameResultTwice ==
    cfg.pc \in {"appliedAgain", "reapplied"} =>
        /\ cfg.ret2.s = cfg.ret.s
        /\ cfg.ret2.err = cfg.ret.err

\* C23: reconciling two equal configs against the same URI yields equal
\* configs and the same error code with the same recorded pairs (the message
\* lists the pairs in no fixed order); a second reconciliation of the config
\* object the first one reconciled leaves the config as it is and returns nil.
C23_Deterministic ==
    /\ cfg.pc = "appliedAgain" =>
          /\ cfg.ret2.s = cfg.ret.s
          /\ cfg.ret2.err.code = cfg.ret.err.code
          /\ Entries(cfg.ret2.err.inURI) = Entries(cfg.ret.err.inURI)
          /\ Entries(cfg.ret2.err.inFile) = Entries(cfg.ret.err.inFile)
    /\ cfg.pc = "reapplied" =>
          /\ cfg.ret2.s = cfg.ret.s
          /\ cfg.ret2.err = ErrNil

\* C23 witness: the first reconciliation returned ErrIncompatibleSinkConfig
\* for both parameters, the second one ran on the reconciled object.
C23_Witness ==
    /\ cfg.pc = "reapplied"
    /\ cfg.ret.err.code = "ErrIncompatibleSinkConfig"
    /\ Len(cfg.ret.err.inURI) = 2
    /\ cfg.ret2.err = ErrNil
    /\ cfg.ret2.s = cfg.ret.s

\* reconciling the config c against the URI of the call gives
\* ErrIncompatibleSinkConfig
ConflictsWithURI(c) ==
    \E a \in applyParameterBySinkURI(c, cfg.uri) :
        a.err.code = "ErrIncompatibleSinkConfig"

\* the two configs hold the same in both parameters: set or not, and the value
SameParams(c, d) ==
    /\ IsNil(c.Protocol) = IsNil(d.Protocol)
    /\ GetOrZero(c.Protocol, "") = GetOrZero(d.Protocol, "")
    /\ IsNil(c.TxnAtomicity) = IsNil(d.TxnAtomicity)
    /\ GetOrZero(c.TxnAtomicity, "") = GetOrZero(d.TxnAtomicity, "")

\* the first two parts of C24, with the answer `expected` for the call on a
\* new config with protocol canal-json, a URI with protocol open and an old
\* config without protocol
CompatibilityRule(expected) ==
    (cfg.pc = "checked" /\ cfg.parsed) =>
        /\ (~ConflictsWithURI(cfg.old) /\ SameParams(cfg.s, cfg.old))
               => cfg.ret.err.code = "nil"
        /\ ~(~ConflictsWithURI(cfg.old) /\ SameParams(cfg.s, cfg.old))
               => (cfg.ret.err.code = "ErrIncompatibleSinkConfig"
                      <=> (ConflictsWithURI(cfg.s) /\ ~ConflictsWithURI(cfg.old)))
        /\ cfg.ret.err.code \in {"nil", "ErrIncompatibleSinkConfig"}
        /\ (/\ GetOrZero(cfg.s.Protocol, "") = "canal-json"
            /\ FromURI(ProtocolKey) = "open"
            /\ IsNil(cfg.old.Protocol)
            /\ ~Differ(TxnAtomicityKey, cfg.s.TxnAtomicity)
            /\ ~Differ(TxnAtomicityKey, cfg.old.TxnAtomicity))
               => cfg.ret.err.code = expected

\* C24 as stated: CheckCompatibilityWithSinkURI returns nil when neither the
\* URI-derived parameters nor the config parameters changed; otherwise it
\* returns ErrIncompatibleSinkConfig exactly when the new config conflicts
\* with the URI and the old one does not; with new protocol canal-json, URI
\* protocol open and an old config without protocol it returns nil.
C24_CompatibilityExampleOK == CompatibilityRule("nil")

\* C24: the same rule; with new protocol canal-json, URI protocol open and
\* an old config without protocol (the atomicity not in conflict) the call
\* returns ErrIncompatibleSinkConfig, as the rule says; it returns nil once
\* the new config holds the URI's protocol open.
C24_Compatibility ==
    /\ CompatibilityRule("ErrIncompatibleSinkConfig")
    /\ (/\ cfg.pc = "checked"
        /\ cfg.parsed
        /\ GetOrZero(cfg.s.Protocol, "") = "open"
        /\ FromURI(ProtocolKey) = "open"
        /\ IsNil(cfg.old.Protocol)
        /\ ~Differ(TxnAtomicityKey, cfg.s.TxnAtomicity)
        /\ ~Differ(TxnAtomicityKey, cfg.old.TxnAtomicity))
           => cfg.ret.err.code = "nil"

\* C24 witness: new protocol canal-json, URI protocol open, old config
\* without protocol, and the call returned ErrIncompatibleSinkConfig.
C24_Witness ==
    /\ cfg.pc = "checked"
    /\ cfg.parsed
    /\ cfg.s.Protocol.val = "canal-json"
    /\ FromURI(ProtocolKey) = "open"
    /\ IsNil(cfg.old.Protocol)
    /\ IsNil(cfg.s.TxnAtomicity)
    /\ IsNil(cfg.old.TxnAtomicity)
    /\ cfg.ret.err.code = "ErrIncompatibleSinkConfig"

\* the value of a parameter after reconciliation: the URI's when the URI
\* supplies one, else the config's
Effective(key, p) == IF FromURI(key) # "" THEN FromURI(key) ELSE GetOrZero(p, "")

\* the effective transaction-atomicity passes for the scheme of the URI
AtomicityPasses ==
    LET l == Effective(TxnAtomicityKey, cfg.s.TxnAtomicity) IN
    /\ l \in {"", "none", "table"}
    /\ ~(l = "table" /\ IsMQScheme(cfg.uri.Scheme))

\* C25: validating a config against a sink URI succeeds only if the effective
\* transaction-atomicity is unset, none or table; table is rejected with
\* ErrSinkURIInvalid for an MQ scheme, and any other value is rejected for
\* every scheme.
C25_TxnAtomicityValidation ==
    (cfg.pc = "validatedSinkURI" /\ ~cfg.uri.isNil) =>
        LET l == Effective(TxnAtomicityKey, cfg.s.TxnAtomicity) IN
        /\ cfg.ret.err = ErrNil => l \in {"", "none", "table"}
        /\ (l = "table" /\ IsMQScheme(cfg.uri.Scheme))
              => cfg.ret.err.code = "ErrSinkURIInvalid"
        /\ l \notin {"", "none", "table"} => cfg.ret.err.code = "ErrSinkURIInvalid"
        /\ (AtomicityPasses /\ cfg.uri.Scheme = "blackhole") => cfg.ret.err = ErrNil
        /\ GetOrZero(cfg.ret.s.TxnAtomicity, "") = l

\* C25 witness: the URI of an MQ sink carries table over a config that says
\* none, and validation returned ErrSinkURIInvalid.
C25_Witness ==
    /\ cfg.pc = "validatedSinkURI"
    /\ cfg.uri.Scheme = "kafka"
    /\ FromURI(TxnAtomicityKey) = "table"
    /\ cfg.s.TxnAtomicity.val = "none"
    /\ FromURI(ProtocolKey) = "open"
    /\ cfg.ret.err.code = "ErrSinkURIInvalid"

\* C26: the protocol is validated as reconciled.  For an MQ or storage scheme
\* validation fails unless the effective protocol is a known one; for a
\* MySQL-compatible scheme it fails with ErrSinkURIInvalid whenever the
\* config or the URI carries a protocol; for another scheme (blackhole) any
\* protocol is accepted.
C26_ProtocolValidation ==
    (cfg.pc = "validatedSinkURI" /\ ~cfg.uri.isNil) =>
        LET p == Effective(ProtocolKey, cfg.s.Protocol)
            scheme == cfg.uri.Scheme
        IN  /\ (IsMQScheme(scheme) \/ IsStorageScheme(scheme))
                  => (cfg.ret.err = ErrNil
                         <=> (AtomicityPasses /\ p \in KnownProtocols))
            /\ (/\ IsMySQLCompatibleScheme(scheme)
                /\ (~IsNil(cfg.s.Protocol) \/ FromURI(ProtocolKey) # ""))
                  => cfg.ret.err.code = "ErrSinkURIInvalid"
            /\ (IsMySQLCompatibleScheme(scheme) /\ IsNil(cfg.s.Protocol)
                /\ FromURI(ProtocolKey) = "")
                  => (cfg.ret.err = ErrNil <=> AtomicityPasses)
            /\ scheme = "blackhole" => (cfg.ret.err = ErrNil <=> AtomicityPasses)

\* C26 witness: a storage sink whose config names an unknown protocol and
\* whose URI names csv passes, and holds csv.
C26_Witness ==
    /\ cfg.pc = "validatedSinkURI"
    /\ cfg.uri.Scheme = "s3"
    /\ cfg.s.Protocol.val = "bogus"
    /\ FromURI(ProtocolKey) = "csv"
    /\ cfg.ret.err = ErrNil
    /\ cfg.ret.s.Protocol.val = "csv"

\* C27 as stated: after validateAndAdjust succeeds on a config without
\* terminator the terminator is CRLF, for every scheme; a terminator that was
\* set is left as it is.
C27_TerminatorDefaultAnyScheme ==
    (cfg.pc = "validated" /\ cfg.ret.err = ErrNil) =>
        IF IsNil(cfg.s.Terminator)
        THEN ~IsNil(cfg.ret.s.Terminator) /\ cfg.ret.s.Terminator.val = CRLF
        ELSE cfg.ret.s.Terminator = cfg.s.Terminator

\* C27: after validateAndAdjust succeeds on a config without terminator the
\* terminator is CRLF for every scheme that is not MySQL-compatible, and
\* still unset for a MySQL-compatible one; a terminator that was set is left
\* as it is.
C27_TerminatorDefault ==
    (cfg.pc = "validated" /\ cfg.ret.err = ErrNil) =>
        IF IsNil(cfg.s.Terminator) /\ ~IsMySQLCompatibleScheme(cfg.uri.Scheme)
        THEN ~IsNil(cfg.ret.s.Terminator) /\ cfg.ret.s.Terminator.val = CRLF
        ELSE cfg.ret.s.Terminator = cfg.s.Terminator

\* C27 witness: validateAndAdjust succeeded for a storage sink and set CRLF.
C27_Witness ==
    /\ cfg.pc = "validated"
    /\ cfg.ret.err = ErrNil
    /\ cfg.uri.Scheme = "s3"
    /\ IsNil(cfg.s.Terminator)
    /\ cfg.ret.s.Terminator.val = CRLF

\* C29: for every config and every URI the two maps applyParameterBySinkURI
\* builds have the same keys, hence the same size, and the panic on unequal
\* sizes does not fire.
C29_NoPanic ==
    cfg.pc \in {"applied", "appliedAgain", "reapplied"} =>
        /\ DOMAIN cfg.ret.cfgInSinkURI = DOMAIN cfg.ret.cfgInFile
        /\ Cardinality(DOMAIN cfg.ret.cfgInSinkURI)
              = Cardinality(DOMAIN cfg.ret.cfgInFile)
        /\ cfg.ret.err.code # "panic"
        /\ \A k \in DOMAIN cfg.ret.cfgInSinkURI :
              /\ cfg.ret.cfgInSinkURI[k] = FromURI(k)
              /\ cfg.ret.cfgInFile[k] # FromURI(k)

\* C29 witness: both parameters were recorded, two keys in each map.
C29_Witness ==
    /\ cfg.pc = "applied"
    /\ DOMAIN cfg.ret.cfgInSinkURI = {TxnAtomicityKey, ProtocolKey}
    /\ DOMAIN cfg.ret.cfgInFile = {TxnAtomicityKey, ProtocolKey}
    /\ cfg.ret.err.code = "ErrIncompatibleSinkConfig"

\* ------------------------------------------------ claims on the freeze
\* C28: once freeze has run (the state has left Sinking) no resolved marker
\* of a later UpdateResolvedTs enters the tracker, so while the backend is
\* alive the checkpoint is never above the last marker enqueued before the
\* freeze; maxResolvedTs still advances, and the drained events are still
\* registered in the tracker and handed to the backend.
C28_FreezeStopsMarkers ==
    [][state # TableSinkSinking
          => /\ progressTracker.frozen
             /\ MarkersOf(enqueued') = MarkersOf(enqueued)
             /\ progressTracker'.lastResolved = progressTracker.lastResolved
             /\ ~backendDead' =>
                   /\ ~Less(progressTracker'.lastResolved, CheckpointNow')
                   /\ ~Less(progressTracker'.lastResolved, lastCkpt')
             /\ writes' # writes =>
                   /\ maxResolvedTs' = writes'[Len(writes')].r
                   /\ Less(maxResolvedTs, maxResolvedTs')
                   /\ Len(enqueued') = Len(enqueued)
                                          + Len(writes'[Len(writes')].batch)]_vars

\* C28 witness: after the freeze, with the backend alive, an UpdateResolvedTs
\* handed a batch to the backend and registered its events; maxResolvedTs is
\* above the last marker of the tracker.
C28_Witness ==
    /\ state # TableSinkSinking
    /\ ~backendDead
    /\ Less(progressTracker.lastResolved, maxResolvedTs)
    /\ writes # <<>>
    /\ writes[Len(writes)].batch # <<>>
    /\ writes[Len(writes)].r = maxResolvedTs
    /\ enqueued # <<>>
    /\ enqueued[Len(enqueued)].kind = "EventPending"

\* C30: when Close or AsyncClose freezes a Sinking sink whose tracker is
\* closed already (nothing pending, or the backend dead), the state is
\* Stopped when freeze returns: the GetCheckpointTs called after the
\* CompareAndSwap to Stopping closes the sink.  The nested calls end after
\* two CompareAndSwaps and two returns of GetCheckpointTs.
C30_FreezeCompletesClose ==
    [][(/\ state = TableSinkSinking
        /\ state' # TableSinkSinking
        /\ (progressTracker.Q = <<>> \/ backendDead))
          => LET f == freezeOp(Ctx(state, progressTracker), backendDead) IN
             /\ state' = TableSinkStopped
             /\ f.state = TableSinkStopped
             /\ f.cas = <<<<TableSinkSinking, TableSinkStopping>>,
                          <<TableSinkStopping, TableSinkStopped>>>>
             /\ Len(f.rets) = 2]_vars

\* C30 witness: Close has frozen a sink with an empty tracker and an alive
\* backend, and the state is Stopped before waitClosed has returned.
C30_Witness ==
    /\ closePc = "waitClosed"
    /\ state = TableSinkStopped
    /\ progressTracker.Q = <<>>
    /\ enqueued = <<>>
    /\ ~backendDead

\* ------------------------------------- claims on the flush as a whole
\* the step is an UpdateResolvedTs whose WriteEvents answers an error
FailedAdvance ==
    /\ writes' # writes
    /\ writes'[Len(writes')].answer # "nil"

\* what such a call has done when it returns: the error is returned wrapped,
\* maxResolvedTs is r, the events with commitTs <= r.Ts are out of the
\* buffer and have their ack entries in the tracker
FailedAdvanceKept ==
    LET w == writes'[Len(writes')]
        n == Len(w.batch)
    IN  /\ w.ret.kind = "SinkInternalError"
        /\ Less(maxResolvedTs, w.r)
        /\ maxResolvedTs' = w.r
        /\ w.batch \o eventBuffer' = eventBuffer
        /\ \A k \in 1..n : w.batch[k].commitTs <= w.r.Ts
        /\ \A k \in 1..Len(eventBuffer') : eventBuffer'[k].commitTs > w.r.Ts
        /\ Len(enqueued') >= Len(enqueued) + n
        /\ SubSeq(enqueued', 1, Len(enqueued) + n)
              = enqueued \o [k \in 1..n |->
                                EventPending(progressTracker.nextAckId + k - 1)]
        /\ SkipFlush(maxResolvedTs', w.r)

\* the marker r is the one item the call queued behind those entries
MarkerKept ==
    LET w == writes'[Len(writes')] IN
    enqueued' = enqueued \o FlushItems(progressTracker.nextAckId, Len(w.batch), w.r)

\* an UpdateResolvedTs with the r of the last, failed call returns nil
\* without a WriteEvents call and changes nothing
RetryIsNoOp ==
    (/\ writes # <<>>
     /\ writes[Len(writes)].answer # "nil"
     /\ UpdateResolvedTsAt(writes[Len(writes)].r, "nil"))
        => /\ skipped'
           /\ UNCHANGED <<writes, maxResolvedTs, eventBuffer, progressTracker,
                          enqueued, state>>

\* C31 as stated: when UpdateResolvedTs(r) returns SinkInternalError,
\* maxResolvedTs is r already, the events with commitTs <= r.Ts are out of
\* the buffer and registered in the tracker, and the marker r is enqueued; a
\* retry with the same r returns nil without calling WriteEvents again.
C31_FailedAdvanceKeptAlways ==
    [][/\ FailedAdvance => (FailedAdvanceKept /\ MarkerKept)
       /\ RetryIsNoOp]_vars

\* C31: the same, with the marker r enqueued when the tracker is not frozen;
\* after a freeze the call queues the ack entries and no marker.
C31_FailedAdvanceKept ==
    [][/\ FailedAdvance =>
             /\ FailedAdvanceKept
             /\ IF progressTracker.frozen
                THEN Len(enqueued') = Len(enqueued)
                                        + Len(writes'[Len(writes')].batch)
                ELSE MarkerKept
       /\ RetryIsNoOp]_vars

\* C31 witness: the one WriteEvents call so far, with an event in its batch,
\* answered an error; the event is out of the buffer and the marker is
\* queued; an UpdateResolvedTs with the same r has taken the early return.
C31_Witness ==
    /\ Len(writes) = 1
    /\ writes[1].answer = "backendError"
    /\ writes[1].ret.kind = "SinkInternalError"
    /\ writes[1].batch # <<>>
    /\ writes[1].r = NewResolvedTs(1)
    /\ maxResolvedTs = NewResolvedTs(1)
    /\ eventBuffer = <<>>
    /\ enqueued = <<EventPending(1), ResolvedMarker(NewResolvedTs(1))>>
    /\ skipped

\* the ackIds of the ack entries of a sequence of tracker items, in order
RECURSIVE AckIdsOf(_)
AckIdsOf(items) ==
    IF items = <<>> THEN <<>>
    ELSE IF Head(items).kind = "EventPending"
         THEN <<Head(items).ackId>> \o AckIdsOf(Tail(items))
         ELSE AckIdsOf(Tail(items))

\* every appended event is in one place and there once: the batches handed
\* to WriteEvents, in the order of the calls, followed by the buffer are the
\* appended events in the order of their append; the k-th event handed over
\* got the ack handle k, and no handle was issued otherwise
OnePlace ==
    /\ written \o eventBuffer = appended
    /\ \A j, k \in 1..Len(appended) : j # k => appended[j].id # appended[k].id
    /\ AckIdsOf(enqueued) = [k \in 1..Len(written) |-> k]
    /\ progressTracker.nextAckId = Len(written) + 1

\* C32: after any sequence of appends and UpdateResolvedTs calls of a
\* producer that keeps the contract, every appended event is in exactly one
\* place: still in the buffer, or handed to the backend in exactly one
\* WriteEvents batch with exactly one newly issued ack handle; after an
\* advancing UpdateResolvedTs(r) the buffer holds exactly the appended events
\* with commitTs > r.Ts, in their original order.
C32_ExactlyOnceHandOff ==
    [][/\ OnePlace'
       /\ writes' # writes =>
             LET w == writes'[Len(writes')] IN
             /\ Less(maxResolvedTs, w.r)
             /\ eventBuffer' = SelectSeq(appended, LAMBDA e : e.commitTs > w.r.Ts)
             /\ w.batch = SelectSeq(eventBuffer, LAMBDA e : e.commitTs <= w.r.Ts)
             /\ written' = SelectSeq(appended, LAMBDA e : e.commitTs <= w.r.Ts)]_vars

\* C32 witness: two events were appended, an advance handed the first one to
\* the backend with ack handle 1, the second one is still in the buffer.
C32_Witness ==
    /\ Len(appended) = 2
    /\ Len(writes) = 1
    /\ writes[1].batch = <<appended[1]>>
    /\ eventBuffer = <<appended[2]>>
    /\ AckIdsOf(enqueued) = <<1>>
    /\ maxResolvedTs.Ts < appended[2].commitTs

====
